---- MODULE Spec2Model ----
(***************************************************************************)
(* Model of shapiro_app.py: the Streamlit page that reads a block of text, *)
(* parses it into numbers, validates the count, runs the Shapiro-Wilk test *)
(* and shows a verdict and two charts.                                     *)
(*                                                                         *)
(* A text is a sequence of one-character strings.  A float is a record     *)
(* [kind, neg, m, x]: kind "finite" stands for (-1)^neg * m * 10^x with m  *)
(* carrying no trailing zero, kind "inf" and "nan" for the IEEE specials.  *)
(* The rounding of a decimal to the nearest double is not modelled: every  *)
(* decimal the model reads has at most nine significant digits.            *)
(***************************************************************************)
EXTENDS Integers, Sequences, FiniteSets, TLC

VARIABLES
    input_numbers_str,  \* the content of the text area
    analyze_button,     \* TRUE when the latest script run was started by the button
    outcome,            \* how the analysis block of the latest run ended
    dados,              \* the parsed numbers of the latest run (<<>> when none)
    p_value,            \* the p-value of the latest run (NoFloat when none)
    events              \* what the analysis block of the latest run displayed
                        \* and which library calls it made, in order

vars == <<input_numbers_str, analyze_button, outcome, dados, p_value, events>>

----------------------------------------------------------------------------
(* Bounds of the model *)

\* the number of characters the user types one chunk at a time
MaxTyped == 3
\* the largest number of items of a pasted list
MaxItems == 31
\* the largest p-value the Shapiro-Wilk call returns, in hundredths
MaxP == 6

----------------------------------------------------------------------------
(* Strings *)

Digits == {"0", "1", "2", "3", "4", "5", "6", "7", "8", "9"}

\* the characters str.strip() and float() treat as white space
Whitespace == {" ", "\t", "\n", "\r"}

\* str.replace(old, new) for a one-character old and a new of length 0 or 1
Replace(s, old, new) ==
    IF new = <<>>
    THEN SelectSeq(s, LAMBDA c : c /= old)
    ELSE [i \in 1..Len(s) |-> IF s[i] = old THEN new[1] ELSE s[i]]

\* the members of a set of integers in increasing order
RECURSIVE Sorted(_)
Sorted(S) ==
    IF S = {} THEN <<>>
    ELSE LET lo == CHOOSE i \in S : \A j \in S : i <= j
         IN  <<lo>> \o Sorted(S \ {lo})

\* str.split(sep) for a one-character sep: the pieces between the separators,
\* empty pieces kept, so that a text without separator gives one piece
Split(s, sep) ==
    LET starts == Sorted({1} \cup {i + 1 : i \in {j \in 1..Len(s) : s[j] = sep}})
        n      == Len(starts)
    IN  [k \in 1..n |->
            SubSeq(s, starts[k], IF k < n THEN starts[k + 1] - 2 ELSE Len(s))]

\* str.strip(): leading and trailing white space removed
Strip(s) ==
    LET keep == {i \in 1..Len(s) : s[i] \notin Whitespace}
    IN  IF keep = {}
        THEN <<>>
        ELSE LET lo == CHOOSE i \in keep : \A j \in keep : i <= j
                 hi == CHOOSE i \in keep : \A j \in keep : j <= i
             IN  SubSeq(s, lo, hi)

\* str.lower() on the letters of "infinity", "nan" and the exponent marker
LowerChar(c) ==
    CASE c = "I" -> "i" [] c = "N" -> "n" [] c = "F" -> "f" [] c = "T" -> "t"
      [] c = "Y" -> "y" [] c = "A" -> "a" [] c = "E" -> "e" [] OTHER -> c

Lower(s) == [i \in 1..Len(s) |-> LowerChar(s[i])]

----------------------------------------------------------------------------
(* float(): Python's grammar for a floating-point literal *)

NoFloat == [kind |-> "none", neg |-> FALSE, m |-> 0, x |-> 0]
NaN     == [kind |-> "nan", neg |-> FALSE, m |-> 0, x |-> 0]
Inf(neg) == [kind |-> "inf", neg |-> neg, m |-> 0, x |-> 0]

IsFinite(v) == v.kind = "finite"

\* digits with single underscores between them
IsDigitRun(s) ==
    /\ s /= <<>>
    /\ s[1] \in Digits
    /\ s[Len(s)] \in Digits
    /\ \A i \in 1..Len(s) : s[i] \in Digits \cup {"_"}
    /\ \A i \in 1..(Len(s) - 1) : ~(s[i] = "_" /\ s[i + 1] = "_")

DigitValue(c) ==
    CASE c = "0" -> 0 [] c = "1" -> 1 [] c = "2" -> 2 [] c = "3" -> 3 [] c = "4" -> 4
      [] c = "5" -> 5 [] c = "6" -> 6 [] c = "7" -> 7 [] c = "8" -> 8 [] c = "9" -> 9

RECURSIVE DigitsToNat(_)
DigitsToNat(s) ==
    IF s = <<>> THEN 0
    ELSE 10 * DigitsToNat(SubSeq(s, 1, Len(s) - 1)) + DigitValue(s[Len(s)])

RECURSIVE NumDigits(_)
NumDigits(n) == IF n < 10 THEN 1 ELSE 1 + NumDigits(n \div 10)

RECURSIVE Pow10(_)
Pow10(k) == IF k = 0 THEN 1 ELSE 10 * Pow10(k - 1)

\* m * 10^x without trailing zeros in m; zero is <<0, 0>>
RECURSIVE Normal(_, _)
Normal(m, x) ==
    IF m = 0 THEN <<0, 0>>
    ELSE IF m % 10 = 0 THEN Normal(m \div 10, x + 1)
    ELSE <<m, x>>

\* the double nearest to (-1)^neg * m * 10^x: infinite above the largest double
\* (1.7976931348623157e308), zero below the smallest (4.9e-324)
Rounded(neg, m, x) ==
    LET n  == Normal(m, x)
        e  == NumDigits(n[1]) + n[2] - 1
        l9 == n[1] * Pow10(9 - NumDigits(n[1]))
    IN  IF n[1] = 0 THEN [kind |-> "finite", neg |-> neg, m |-> 0, x |-> 0]
        ELSE IF e > 308 \/ (e = 308 /\ l9 > 179769313) THEN Inf(neg)
        ELSE IF e < -324 THEN [kind |-> "finite", neg |-> neg, m |-> 0, x |-> 0]
        ELSE [kind |-> "finite", neg |-> neg, m |-> n[1], x |-> n[2]]

\* the decimal part of the grammar: [digits][.[digits]][e[sign]digits]
Decimal(neg, s) ==
    LET es    == {i \in 1..Len(s) : s[i] = "e"}
        epos  == IF es = {} THEN Len(s) + 1 ELSE CHOOSE i \in es : \A j \in es : i <= j
        mant  == SubSeq(s, 1, epos - 1)
        expo  == SubSeq(s, epos + 1, Len(s))
        esign == expo /= <<>> /\ expo[1] \in {"+", "-"}
        edig  == IF esign THEN Tail(expo) ELSE expo
        ds    == {i \in 1..Len(mant) : mant[i] = "."}
        dpos  == IF ds = {} THEN Len(mant) + 1 ELSE CHOOSE i \in ds : \A j \in ds : i <= j
        ipart == SubSeq(mant, 1, dpos - 1)
        fpart == SubSeq(mant, dpos + 1, Len(mant))
        idig  == Replace(ipart, "_", <<>>)
        fdig  == Replace(fpart, "_", <<>>)
        ok    == /\ es = {} \/ IsDigitRun(edig)
                 /\ ipart = <<>> \/ IsDigitRun(ipart)
                 /\ fpart = <<>> \/ IsDigitRun(fpart)
                 /\ ipart /= <<>> \/ fpart /= <<>>
        ev    == IF es = {} THEN 0
                 ELSE LET a == DigitsToNat(Replace(edig, "_", <<>>))
                      IN  IF esign /\ expo[1] = "-" THEN 0 - a ELSE a
    IN  IF ok
        THEN [ok |-> TRUE, val |-> Rounded(neg, DigitsToNat(idig \o fdig), ev - Len(fdig))]
        ELSE [ok |-> FALSE, val |-> NoFloat]

\* float(tok): ok is FALSE where Python raises ValueError
Float(tok) ==
    LET s    == Lower(Strip(tok))
        sgn  == s /= <<>> /\ s[1] \in {"+", "-"}
        neg  == sgn /\ s[1] = "-"
        body == IF sgn THEN Tail(s) ELSE s
    IN  IF body = <<"i", "n", "f">> \/ body = <<"i", "n", "f", "i", "n", "i", "t", "y">>
        THEN [ok |-> TRUE, val |-> Inf(neg)]
        ELSE IF body = <<"n", "a", "n">>
        THEN [ok |-> TRUE, val |-> NaN]
        ELSE Decimal(neg, body)

----------------------------------------------------------------------------
(* The parser: lines 60 and 61 *)

\* numbers_raw with the comma left as a separator of items
NumbersRawCommaSeparates(text) ==
    Split(Replace(Replace(text, " ", <<>>), "\n", <<",">>), ",")

\* numbers_raw with the two later replacements in the other order
NumbersRawSwapped(text) ==
    Split(Replace(Replace(Replace(text, " ", <<>>), "\n", <<",">>), ",", <<".">>), ",")

\* numbers_raw: spaces removed, commas turned into periods, newlines into
\* commas, then split on commas
NumbersRaw(text) ==
    Split(Replace(Replace(Replace(text, " ", <<>>), ",", <<".">>), "\n", <<",">>), ",")

\* the tokens the comprehension converts: those not blank under strip()
Kept(raw) == SelectSeq(raw, LAMBDA num : Strip(num) /= <<>>)

\* the comprehension with the tokens that do not convert left out
ParseSkipping(text) ==
    LET kept == SelectSeq(Kept(NumbersRaw(text)), LAMBDA num : Float(num).ok)
    IN  [raised |-> FALSE, dados |-> [i \in 1..Len(kept) |-> Float(kept[i]).val]]

\* dados = [float(num) for num in numbers_raw if num.strip()]; raised is TRUE
\* where a conversion raises ValueError, and no list is built then
Parse(text) ==
    LET kept == Kept(NumbersRaw(text))
        conv == [i \in 1..Len(kept) |-> Float(kept[i])]
    IN  IF \E i \in 1..Len(kept) : ~conv[i].ok
        THEN [raised |-> TRUE, dados |-> <<>>]
        ELSE [raised |-> FALSE, dados |-> [i \in 1..Len(kept) |-> conv[i].val]]

----------------------------------------------------------------------------
(* The analysis block: lines 55 to 136 *)

\* an element displayed or a library call made: n is the count a message
\* carries, data the sample a call or chart receives
Ev(kind, n, data) == [kind |-> kind, n |-> n, data |-> data]

\* a > b on floats; any comparison with NaN is false
Gt(a, b) ==
    /\ a.kind /= "nan" /\ b.kind /= "nan"
    /\ LET key(v) == IF v.kind = "inf" THEN (IF v.neg THEN -2 ELSE 2)
                     ELSE IF v.m = 0 THEN 0
                     ELSE IF v.neg THEN -1 ELSE 1
           lo     == IF a.x < b.x THEN a.x ELSE b.x
           mag(v) == v.m * Pow10(v.x - lo)
       IN  IF key(a) /= key(b) THEN key(a) > key(b)
           ELSE IF key(a) = 1 THEN mag(a) > mag(b)
           ELSE IF key(a) = -1 THEN mag(a) < mag(b)
           ELSE FALSE

\* alpha = 0.05
alpha == Rounded(FALSE, 5, -2)

\* the branch with the lower comparison off by one
ValidationOffByOne(num_dados) ==
    IF num_dados <= 10 \/ num_dados > 30 THEN "out_of_range"
    ELSE IF num_dados = 0 THEN "empty"
    ELSE "ok"

\* the branch the count of parsed numbers selects (lines 66 to 71)
Validation(num_dados) ==
    IF num_dados < 10 \/ num_dados > 30 THEN "out_of_range"
    ELSE IF num_dados = 0 THEN "empty"
    ELSE "ok"

\* the messages of the two failing branches (lines 67, 68 and 70); the first
\* carries the count and the literal bounds of its text, "(10 a 30)"
RangeError(num_dados) ==
    <<Ev("error_range", num_dados, <<Rounded(FALSE, 10, 0), Rounded(FALSE, 30, 0)>>),
      Ev("warning_range", 0, <<>>)>>

EmptyError == <<Ev("error_empty", 0, <<>>)>>

\* the decision rule with the boundary on the accepting side
VerdictInclusive(p) == IF Gt(p, alpha) \/ p = alpha THEN "normal" ELSE "not_normal"

\* the decision rule (lines 88 to 95)
Verdict(p) == IF Gt(p, alpha) THEN "normal" ELSE "not_normal"

\* the conclusion displayed: two paragraphs, then a green or a red box
Conclusion(p) ==
    IF Verdict(p) = "normal"
    THEN <<Ev("markdown_greater", 0, <<p, alpha>>), Ev("markdown_keep_h0", 0, <<>>),
           Ev("verdict_normal", 0, <<>>)>>
    ELSE <<Ev("markdown_less_or_equal", 0, <<p, alpha>>), Ev("markdown_reject_h0", 0, <<>>),
           Ev("verdict_not_normal", 0, <<>>)>>

\* what stats.shapiro may do: return a p-value or raise
ShapiroOutcomes ==
    [raises : {"none"}, p : {Rounded(FALSE, k, -2) : k \in 0..MaxP} \cup {NaN}]
    \cup [raises : {"ValueError", "Exception"}, p : {NoFloat}]

\* what the chart section may do: complete, or raise in one of its calls
ChartOutcomes ==
    [at : {"none"}, raises : {"none"}]
    \cup [at : {"histplot", "probplot"}, raises : {"ValueError", "Exception"}]

\* lines 102 to 131, stopped at the call that raises
Charts(d, ch) ==
    LET head == <<Ev("header_charts", 0, <<>>), Ev("markdown_charts", 0, <<>>),
                  Ev("call_histplot", 0, d)>>
        qq   == <<Ev("call_probplot", 0, d)>>
        rest == <<Ev("pyplot", 0, d), Ev("markdown_guide", 0, <<>>), Ev("info_note", 0, <<>>)>>
    IN  IF ch.at = "histplot" THEN head
        ELSE IF ch.at = "probplot" THEN head \o qq
        ELSE head \o qq \o rest

\* lines 72 to 131 on a sample of accepted size: [raises, p, events]
Report(d, sw, ch) ==
    \* the W statistic is displayed but its value is not modelled
    LET head    == <<Ev("success", Len(d), <<>>), Ev("rule", 0, <<>>),
                     Ev("header_results", 0, <<>>), Ev("call_shapiro", 0, d)>>
        metrics == <<Ev("metric_W", 0, <<>>), Ev("metric_p", 0, <<sw.p>>),
                     Ev("subheader_conclusion", 0, <<>>)>>
    IN  IF sw.raises /= "none"
        THEN [raises |-> sw.raises, p |-> NoFloat, events |-> head]
        ELSE [raises |-> ch.raises, p |-> sw.p,
              events |-> head \o metrics \o Conclusion(sw.p) \o <<Ev("rule", 0, <<>>)>>
                         \o Charts(d, ch)]

\* the two handlers (lines 133 to 136)
Handler(raises) ==
    IF raises = "ValueError" THEN <<Ev("error_invalid", 0, <<>>)>>
    ELSE IF raises = "Exception" THEN <<Ev("error_unexpected", 0, <<>>)>>
    ELSE <<>>

\* the block without the check of the count
RunUnvalidated(parsed, sw, ch) ==
    LET d   == parsed.dados
        rep == Report(d, sw, ch)
    IN  IF parsed.raised
        THEN [outcome |-> "parse_failure", dados |-> <<>>, p_value |-> NoFloat,
              events |-> Handler("ValueError")]
        ELSE [outcome |-> IF sw.raises /= "none" THEN "shapiro_raised"
                          ELSE IF ch.raises /= "none" THEN "charts_raised"
                          ELSE "report",
              dados |-> d, p_value |-> rep.p,
              events |-> rep.events \o Handler(rep.raises)]

\* the whole block for one click: [outcome, dados, p_value, events], where
\* outcome names the place the block ended at
Run(parsed, sw, ch) ==
    LET d      == parsed.dados
        branch == Validation(Len(d))
        rep    == Report(d, sw, ch)
    IN  IF parsed.raised
        THEN [outcome |-> "parse_failure", dados |-> <<>>, p_value |-> NoFloat,
              events |-> Handler("ValueError")]
        ELSE IF branch = "out_of_range"
        THEN [outcome |-> "out_of_range", dados |-> d, p_value |-> NoFloat,
              events |-> RangeError(Len(d))]
        ELSE IF branch = "empty"
        THEN [outcome |-> "empty", dados |-> d, p_value |-> NoFloat,
              events |-> EmptyError]
        ELSE [outcome |-> IF sw.raises /= "none" THEN "shapiro_raised"
                          ELSE IF ch.raises /= "none" THEN "charts_raised"
                          ELSE "report",
              dados |-> d, p_value |-> rep.p,
              events |-> rep.events \o Handler(rep.raises)]

----------------------------------------------------------------------------
(* The texts the user enters *)

\* the default content of the text area (line 44)
DefaultItems ==
    << <<"1","8",".","6","6","6","6","7">>,
       <<"1","8",".","9","5">>,
       <<"1","7",".","8","5">>,
       <<"1","5",".","7","3","3","3","3">>,
       <<"1","6",".","4","1","6","6","7">>,
       <<"1","4",".","5">>,
       <<"1","5",".","9","1","6","6","7">>,
       <<"1","5",".","3">>,
       <<"1","5",".","4","1","6","6","7">>,
       <<"1","5",".","9","1","6","6","7">>,
       <<"1","6",".","4","1","6","6","7">>,
       <<"1","6",".","6","6","6","6","7">>,
       <<"1","8",".","9","5">>,
       <<"1","7",".","8","5">>,
       <<"1","5",".","7","3","3","3","3">> >>

\* the first k items of the cycle `items`, joined by `sep`
RECURSIVE Join(_, _, _)
Join(items, sep, k) ==
    IF k = 0 THEN <<>>
    ELSE IF k = 1 THEN items[1]
    ELSE Join(items, sep, k - 1) \o sep \o items[((k - 1) % Len(items)) + 1]

DefaultValue == Join(DefaultItems, <<",", " ">>, Len(DefaultItems))

\* what one keystroke or short paste appends
Pieces ==
    { <<"1">>, <<".">>, <<",">>, <<"\n">>, <<" ">>, <<"\t">>, <<"\r">>, <<"a">>, <<"-">>,
      <<"e">>, <<"n", "a", "n">>, <<"I", "n", "f">> }

PeriodItems  == << <<"1",".","5">>, <<"2",".","5">>, <<"3",".","5">> >>
CommaItems   == << <<"1",",","5">>, <<"2",",","5">>, <<"3",",","5">> >>
BadItems     ==
    << <<"1",".","2">>, <<"a","b","c">>, <<"3",".","4">>, <<"5">>, <<"6">>, <<"7">>,
       <<"8">>, <<"9">>, <<"1","0">>, <<"1","1">>, <<"1","2">>, <<"1","3">> >>
SpecialItems == << <<"7">>, <<"n","a","n">>, <<"-","i","n","f">>, <<"1","e","9","9","9">> >>
BlankItems   == << <<"4">>, <<"\t">>, <<"-","2","e","1">>, <<" ">>, <<>> >>

\* the lists a user pastes: the items and what separates them
Lists ==
    { <<PeriodItems, <<"\n">>>>, <<CommaItems, <<"\n">>>>, <<PeriodItems, <<",">>>>,
      <<PeriodItems, <<",", " ">>>>, <<BadItems, <<"\n">>>>, <<BadItems, <<",", " ">>>>,
      <<SpecialItems, <<"\n">>>>, <<BlankItems, <<"\n">>>>, <<DefaultItems, <<"\n">>>> }

----------------------------------------------------------------------------
(* The page *)

\* a run of the script that the button did not start displays nothing of the
\* analysis block (line 55)
Idle(text) ==
    /\ input_numbers_str' = text
    /\ analyze_button' = FALSE
    /\ outcome' = "none"
    /\ dados' = <<>>
    /\ p_value' = NoFloat
    /\ events' = <<>>

Init ==
    /\ input_numbers_str = DefaultValue
    /\ analyze_button = FALSE
    /\ outcome = "none"
    /\ dados = <<>>
    /\ p_value = NoFloat
    /\ events = <<>>

\* the user types into the text area
Type ==
    \E piece \in Pieces :
        /\ Len(input_numbers_str) + Len(piece) <= MaxTyped
        /\ Idle(input_numbers_str \o piece)

\* the user pastes a list into the empty text area
Paste ==
    \E l \in Lists, k \in 1..MaxItems :
        /\ input_numbers_str = <<>>
        /\ Idle(Join(l[1], l[2], k))

\* the user empties the text area
Clear ==
    /\ input_numbers_str /= <<>>
    /\ Idle(<<>>)

\* the user clicks "Analisar Dados": the script runs the analysis block
Analyze ==
    \E parsed \in {Parse(input_numbers_str)}, sw \in ShapiroOutcomes, ch \in ChartOutcomes :
        \E r \in {Run(parsed, sw, ch)} :
            /\ analyze_button' = TRUE
            /\ outcome' = r.outcome
            /\ dados' = r.dados
            /\ p_value' = r.p_value
            /\ events' = r.events
            /\ UNCHANGED input_numbers_str

Next == Type \/ Paste \/ Clear \/ Analyze

Spec == Init /\ [][Next]_vars

----------------------------------------------------------------------------
(* What the latest run displayed *)

Kinds == {events[i].kind : i \in 1..Len(events)}

\* the place of the first event of a kind
Pos(kind) == CHOOSE i \in 1..Len(events) : events[i].kind = kind /\ \A j \in 1..(i - 1) : events[j].kind /= kind

ErrorKinds == {"error_invalid", "error_unexpected", "error_range", "error_empty"}

ReportKinds ==
    {"success", "metric_W", "metric_p", "verdict_normal", "verdict_not_normal", "pyplot"}

CallKinds == {"call_shapiro", "call_histplot", "call_probplot"}

\* the button started the latest run and every number was converted
ParsedOk == analyze_button /\ outcome /= "parse_failure"

\* the lines of a text, and the decimal markers of a line
Lines(text) == Split(text, "\n")
Markers(line) == Cardinality({i \in 1..Len(line) : line[i] \in {",", "."}})

F(m, x) == [kind |-> "finite", neg |-> FALSE, m |-> m, x |-> x]

----------------------------------------------------------------------------
(* C1 *)

\* digits, a period, digits
IsPeriodDecimal(item) ==
    \E i \in 2..(Len(item) - 1) :
        /\ item[i] = "."
        /\ \A j \in 1..Len(item) : j /= i => item[j] \in Digits

\* one line of period-decimal numbers separated by commas, spaces allowed
\* only after a comma
IsCommaList(text) ==
    /\ \A i \in 1..Len(text) : text[i] \in Digits \cup {".", ",", " "}
    /\ \A i \in 1..Len(text) : text[i] = " " => i > 1 /\ text[i - 1] = ","
    /\ \A item \in {Split(Replace(text, " ", <<>>), ",")} :
           \A i \in 1..Len(item) : IsPeriodDecimal(item[i])

\* the numbers such a line lists, each read by itself
ListedValues(text) ==
    LET item == Split(Replace(text, " ", <<>>), ",")
    IN  [i \in 1..Len(item) |-> Float(item[i]).val]

\* C1: parsing a single-line, comma-separated list of period-decimal numbers
\* yields exactly the listed numbers, in order, and not a parse failure.
C1_CommaSeparatedListParses ==
    (analyze_button /\ IsCommaList(input_numbers_str)) =>
        /\ outcome /= "parse_failure"
        /\ dados = ListedValues(input_numbers_str)

----------------------------------------------------------------------------
(* C2 *)

\* lines that each hold at most one decimal marker
IsLineList(text) == \A line \in {Lines(text)} : \A i \in 1..Len(line) : Markers(line[i]) <= 1

DecimalCommaExample == <<"1", ",", "5", "\n", "2", ",", "5", "\n", "3", ",", "5">>

\* C2: for a newline-separated list whose items hold at most one decimal
\* marker, the numbers parsed are those parsed from the same text with every
\* comma written as a period; "1,5\n2,5\n3,5" gives 1.5, 2.5, 3.5.
C2_DecimalCommaSameAsPeriod ==
    (analyze_button /\ IsLineList(input_numbers_str)) =>
        \A alt \in {Parse(Replace(input_numbers_str, ",", <<".">>))} :
            /\ (outcome = "parse_failure") = alt.raised
            /\ ~alt.raised => dados = alt.dados
            /\ input_numbers_str = DecimalCommaExample =>
                   dados = <<F(15, -1), F(25, -1), F(35, -1)>>

C2_Witness ==
    /\ ParsedOk
    /\ IsLineList(input_numbers_str)
    /\ \E i \in 1..Len(input_numbers_str) : input_numbers_str[i] = ","
    /\ Len(dados) = 3
    /\ dados = <<F(15, -1), F(25, -1), F(35, -1)>>

----------------------------------------------------------------------------
(* C3 *)

\* C3: when parsing yields 0 numbers the Empty error is reported, and never
\* the OutOfRange error with a count of 0.
C3_EmptyBeforeOutOfRange ==
    (ParsedOk /\ Len(dados) = 0) =>
        /\ outcome = "empty"
        /\ "error_empty" \in Kinds
        /\ "error_range" \notin Kinds

----------------------------------------------------------------------------
(* C4 *)

Accepted == outcome \in {"report", "shapiro_raised", "charts_raised"}

\* C4: validation succeeds exactly when the count n is between 10 and 30,
\* leaving the values unchanged; for a non-zero n outside that range the
\* OutOfRange message carries n and the bounds 10 and 30.
C4_CountBetween10And30 ==
    ParsedOk =>
        /\ Accepted <=> (10 <= Len(dados) /\ Len(dados) <= 30)
        /\ Accepted =>
               /\ events[1] = Ev("success", Len(dados), <<>>)
               /\ \A parsed \in {Parse(input_numbers_str)} :
                      /\ dados = parsed.dados
                      /\ events[Pos("call_shapiro")].data = parsed.dados
        /\ (~Accepted /\ Len(dados) /= 0) =>
               /\ outcome = "out_of_range"
               /\ events[1] = Ev("error_range", Len(dados), <<F(1, 1), F(3, 1)>>)

C4_Witness == ParsedOk /\ Len(dados) = 30 /\ outcome = "report"

----------------------------------------------------------------------------
(* C5 *)

\* the tokens that are not blank: §4.1 discards the tokens that are empty
\* after trimming and converts each remaining one
HasBadToken(text) ==
    \E raw \in {NumbersRaw(text)} :
        \E i \in 1..Len(raw) : Strip(raw[i]) /= <<>> /\ ~Float(raw[i]).ok

\* C5: if any token left after trimming cannot be converted, the whole parse
\* fails whatever the number of valid tokens: no value is kept, neither the
\* count is validated nor a statistic computed, and the only thing displayed
\* is the request to enter valid numbers.
C5_BadTokenFailsTheParse ==
    (analyze_button /\ HasBadToken(input_numbers_str)) =>
        /\ outcome = "parse_failure"
        /\ dados = <<>>
        /\ p_value = NoFloat
        /\ events = <<Ev("error_invalid", 0, <<>>)>>

\* one bad token among at least eleven tokens, ten of them valid
C5_Witness ==
    /\ analyze_button
    /\ outcome = "parse_failure"
    /\ \E raw \in {NumbersRaw(input_numbers_str)} :
           /\ Len(raw) >= 11
           /\ Cardinality({i \in 1..Len(raw) : ~Float(raw[i]).ok}) = 1
    /\ HasBadToken(input_numbers_str)

----------------------------------------------------------------------------
(* C6 *)

\* a p-value of the model in hundredths
Hundredths(p) == p.m * Pow10(p.x + 2)

\* C6: p > 0.05 gives NORMAL, p <= 0.05 gives NOT_NORMAL (0.05 itself too),
\* and a run that reaches the conclusion shows exactly one of the two.
C6_VerdictFromPValue ==
    (analyze_button /\ outcome \in {"report", "charts_raised"}) =>
        /\ ("verdict_normal" \in Kinds) /= ("verdict_not_normal" \in Kinds)
        /\ Cardinality({i \in 1..Len(events) :
               events[i].kind \in {"verdict_normal", "verdict_not_normal"}}) = 1
        /\ (IsFinite(p_value) /\ Hundredths(p_value) > 5) => "verdict_normal" \in Kinds
        /\ (IsFinite(p_value) /\ Hundredths(p_value) <= 5) => "verdict_not_normal" \in Kinds

C6_Witness ==
    /\ outcome = "report"
    /\ p_value = F(5, -2)
    /\ "verdict_not_normal" \in Kinds

----------------------------------------------------------------------------
(* C7 *)

\* C7: a run that reports an error has shown no element of the report.
C7_NoPartialReport ==
    (analyze_button /\ Kinds \cap ErrorKinds /= {}) => Kinds \cap ReportKinds = {}

----------------------------------------------------------------------------
(* C8 *)

\* C8: every element of a sample that reaches the Shapiro-Wilk computation
\* is a finite number.
C8_SampleIsFinite ==
    \A i \in 1..Len(events) :
        events[i].kind = "call_shapiro" =>
            \A j \in 1..Len(events[i].data) : IsFinite(events[i].data[j])

----------------------------------------------------------------------------
(* C9 *)

\* C9: the Shapiro-Wilk call, the verdict and the two charts happen only after
\* a successful parse of 10 to 30 numbers, in that order, each on the parsed
\* sequence.
C9_PipelineOrder ==
    \A i \in 1..Len(events) :
        events[i].kind \in CallKinds \cup {"verdict_normal", "verdict_not_normal", "pyplot"} =>
            /\ ParsedOk
            /\ 10 <= Len(dados) /\ Len(dados) <= 30
            /\ \A parsed \in {Parse(input_numbers_str)} :
                   /\ ~parsed.raised
                   /\ dados = parsed.dados
                   /\ events[i].kind \in CallKinds \cup {"pyplot"} => events[i].data = parsed.dados
            /\ events[1].kind = "success"
            /\ events[i].kind /= "call_shapiro" =>
                   \E j \in 1..(i - 1) : events[j].kind = "call_shapiro"
            /\ events[i].kind \in {"call_histplot", "call_probplot", "pyplot"} =>
                   \E j \in 1..(i - 1) : events[j].kind \in {"verdict_normal", "verdict_not_normal"}
            /\ events[i].kind \in {"call_probplot", "pyplot"} =>
                   \E j \in 1..(i - 1) : events[j].kind = "call_histplot"
            /\ events[i].kind = "pyplot" =>
                   \E j \in 1..(i - 1) : events[j].kind = "call_probplot"

C9_Witness ==
    /\ outcome = "report"
    /\ Len(dados) = 10
    /\ "pyplot" \in Kinds
    /\ Pos("call_shapiro") < Pos("call_histplot")

----------------------------------------------------------------------------
(* C10 *)

TwoMarkerLine(text) ==
    \E line \in {Lines(text)} : \E i \in 1..Len(line) : Markers(line[i]) >= 2

\* the lines that are not empty once the spaces are removed
NonEmptyLines(text) ==
    Len(SelectSeq(Lines(text), LAMBDA line : Replace(line, " ", <<>>) /= <<>>))

\* the lines that hold a character other than white space
NonBlankLines(text) ==
    Len(SelectSeq(Lines(text), LAMBDA line : Strip(line) /= <<>>))

====
